---- MODULE Spec2Model ----
(***************************************************************************)
(* A model of the SharedConsciousness toolkit:                             *)
(*   - mcp_server.save_conversation, which writes one JSON file per call   *)
(*     under archive/<date>/<id>.json;                                     *)
(*   - web_ui, which reads that archive (get_all_conversations,            *)
(*     get_conversation) and serves two static screens;                    *)
(*   - fetch_chatgpt, the ChatGPTClient and its main script.               *)
(* Strings the code inspects character by character (ids, file names,     *)
(* dates, message parts) are sequences of one-character strings; strings   *)
(* the code only passes along are atoms.                                   *)
(***************************************************************************)
EXTENDS Integers, Sequences, FiniteSets, TLC

VARIABLES
    fs,        \* the archive directory tree: [exists, dirs, files]
    clock,     \* the UTC wall clock, read to the day: [day]
    issued,    \* the ids uuid.uuid4() has handed out so far
    calls,     \* the save_conversation calls: call -> frame
    resp,      \* the last response of the web UI
    ex,        \* a run of ChatGPTClient.extract_messages: [pc, mapping, idx, messages]
    client,    \* a ChatGPTClient: [access_token, authorization, requests]
    main       \* a run of fetch_chatgpt.main

archVars == <<fs, clock, issued, calls, resp>>

fetchVars == <<ex, client, main>>

vars == <<fs, clock, issued, calls, resp, ex, client, main>>

----------------------------------------------------------------------------
(* Bounds of the model.                                                    *)

MaxSaves == 2
MaxDay == 1
MaxNodes == 3
MaxRequests == 4

----------------------------------------------------------------------------
(* Python values.                                                          *)

\* Optional[list[str]]: None, or a list.
None == [some |-> FALSE, v |-> <<>>]
Some(l) == [some |-> TRUE, v |-> l]

\* Python's truth value of an Optional[list]: None and [] are falsy.
Truthy(o) == o.some /\ o.v # <<>>

\* `x or []`
OrEmpty(o) == IF Truthy(o) THEN o.v ELSE <<>>

----------------------------------------------------------------------------
(* Characters and their order (ASCII), as str and Path comparison use it.  *)

Alphabet == <<"-", ".", "0", "1", "2", "3", "4", "5", "6", "7", "8", "9",
              ":", "T", "a", "b", "j", "n", "o", "s">>

Ord(ch) == CHOOSE i \in 1..Len(Alphabet) : Alphabet[i] = ch

RECURSIVE StrLess(_, _)
StrLess(a, b) ==
    IF b = <<>> THEN FALSE
    ELSE IF a = <<>> THEN TRUE
    ELSE IF Head(a) = Head(b) THEN StrLess(Tail(a), Tail(b))
    ELSE Ord(Head(a)) < Ord(Head(b))

\* sorted(S, reverse=True) of a set of strings
RECURSIVE SortedReverse(_)
SortedReverse(S) ==
    IF S = {} THEN <<>>
    ELSE LET m == CHOOSE x \in S : \A y \in S : y = x \/ StrLess(y, x)
         IN <<m>> \o SortedReverse(S \ {m})

\* `needle in hay` for strings
Contains(hay, needle) ==
    \E i \in 0..(Len(hay) - Len(needle)) :
        \A j \in 1..Len(needle) : hay[i + j] = needle[j]

Digits == <<"0", "1", "2", "3", "4", "5", "6", "7", "8", "9">>

TwoDigits(n) == <<Digits[(n \div 10) + 1], Digits[(n % 10) + 1]>>

----------------------------------------------------------------------------
(* JSON: json.dump writes the payload as a sequence of chunks, json.load   *)
(* parses a complete document back and raises on anything else.            *)

JNull == [t |-> "null", v |-> <<>>]
JStr(s) == [t |-> "str", v |-> s]
JNum(n) == [t |-> "num", v |-> n]
JArr(l) == [t |-> "arr", v |-> l]
JObj(o) == [t |-> "obj", v |-> o]

EncStrList(l) == JArr([i \in 1..Len(l) |-> JStr(l[i])])

EncMessage(m) == JObj([k \in DOMAIN m |-> JStr(m[k])])

EncMessages(ms) == JArr([i \in 1..Len(ms) |-> EncMessage(ms[i])])

OpenChunk == [tok |-> "{", key |-> "", val |-> JNull]
CloseChunk == [tok |-> "}", key |-> "", val |-> JNull]
FieldChunk(k, j) == [tok |-> "field", key |-> k, val |-> j]

\* json.dump(payload, f, indent=2, default=str): the keys in insertion order
JsonDump(payload) ==
    << OpenChunk,
       FieldChunk("id", JStr(payload.id)),
       FieldChunk("title", JStr(payload.title)),
       FieldChunk("summary", JStr(payload.summary)),
       FieldChunk("messages", EncMessages(payload.messages)),
       FieldChunk("tags", EncStrList(payload.tags)),
       FieldChunk("key_points", EncStrList(payload.key_points)),
       FieldChunk("saved_at", JStr(payload.saved_at)),
       FieldChunk("message_count", JNum(payload.message_count)),
       CloseChunk >>

RECURSIVE JsonDecode(_)
JsonDecode(j) ==
    CASE j.t = "arr" -> [i \in 1..Len(j.v) |-> JsonDecode(j.v[i])]
      [] j.t = "obj" -> [k \in DOMAIN j.v |-> JsonDecode(j.v[k])]
      [] j.t = "null" -> None
      [] OTHER -> j.v

\* Whether json.load accepts the content: one complete object.
JsonLoads(content) ==
    /\ Len(content) >= 2
    /\ content[1] = OpenChunk
    /\ content[Len(content)] = CloseChunk
    /\ \A i \in 2..(Len(content) - 1) : content[i].tok = "field"

\* json.load of a content it accepts: the dict of its fields
JsonLoad(content) ==
    LET idx == 2..(Len(content) - 1)
        keys == {content[i].key : i \in idx}
    IN [k \in keys |->
          JsonDecode(content[CHOOSE i \in idx : content[i].key = k
                                 /\ \A j \in idx : content[j].key = k => j <= i].val)]

----------------------------------------------------------------------------
(* mcp_server.save_conversation                                            *)

\* str(uuid.uuid4()): strings of one fixed length over the hex digits
Uuids == {<<"a", "b">>, <<"b", "a">>, <<"b", "b">>}

\* an id generator that may repeat itself
Uuid4Repeating == Uuids

\* uuid.uuid4(): an id that was never handed out before
Uuid4 == Uuids \ issued

\* saved_at.strftime("%Y-%m-%d")
Strftime(t) == <<"2", "0", "2", "5", "-", "1", "2", "-">> \o TwoDigits(t.day + 1)

\* saved_at.isoformat()
IsoFormat(t) ==
    Strftime(t) \o <<"T", "0", "0", ":", "0", "0", ":", "0", "0">>

m1 == [role |-> "user", content |-> "hi"]
m2 == [role |-> "assistant", content |-> "hello"]

\* The arguments a chat client calls the tool with.
SaveInputs ==
    { [title |-> "t1", summary |-> "s1", messages |-> <<>>,
       tags |-> None, key_points |-> None],
      [title |-> "t1", summary |-> "s2", messages |-> <<m1>>,
       tags |-> Some(<<>>), key_points |-> Some(<<"k1">>)],
      [title |-> "t2", summary |-> "s1", messages |-> <<m1, m2>>,
       tags |-> Some(<<"x", "y">>), key_points |-> Some(<<>>)] }

NoInput == [title |-> "", summary |-> "", messages |-> <<>>,
            tags |-> None, key_points |-> None]

IdleFrame == [pc |-> "idle", in |-> NoInput, id |-> <<>>,
              saved_at |-> [day |-> 0]]

\* a count that misses the last message
MessageCountShort(messages) == IF messages = <<>> THEN 0 ELSE Len(messages) - 1

MessageCount(messages) == Len(messages)

\* the payload built from the arguments (lines 98-107)
Payload(f) ==
    [id |-> f.id,
     title |-> f.in.title,
     summary |-> f.in.summary,
     messages |-> f.in.messages,
     tags |-> OrEmpty(f.in.tags),
     key_points |-> OrEmpty(f.in.key_points),
     saved_at |-> IsoFormat(f.saved_at),
     message_count |-> MessageCount(f.in.messages)]

\* save_dir = ARCHIVE_DIR / date_str
SaveDir(f) == Strftime(f.saved_at)

JsonExt == <<".", "j", "s", "o", "n">>

\* f"{conversation_id}.json"
FileName(id) == id \o JsonExt

\* file_path = save_dir / f"{conversation_id}.json"
FilePath(f) == <<SaveDir(f), FileName(f.id)>>

\* what the call returns (lines 129-136)
SaveResult(f) ==
    [status |-> "success",
     id |-> f.id,
     title |-> f.in.title,
     message_count |-> MessageCount(f.in.messages),
     saved_at |-> IsoFormat(f.saved_at),
     file_path |-> FilePath(f)]

\* save_dir.mkdir(parents=True, exist_ok=True)
Mkdir(d) == [fs EXCEPT !.exists = TRUE, !.dirs = @ \cup {d}]

\* the file at path p holding content c (created when absent)
PutFile(p, c) ==
    [fs EXCEPT !.files = [q \in (DOMAIN @) \cup {p} |-> IF q = p THEN c ELSE @[q]]]

Calls == 1..MaxSaves

\* lines 93-107: the id, the timestamp and the payload
SaveBegin(c) ==
    /\ calls[c].pc = "idle"
    /\ \A b \in Calls : b < c => calls[b].pc # "idle"
    /\ \E in \in SaveInputs, id \in Uuid4 :
         /\ calls' = [calls EXCEPT ![c] =
                        [pc |-> "mkdir", in |-> in, id |-> id, saved_at |-> clock]]
         /\ issued' = issued \cup {id}
    /\ UNCHANGED <<fs, clock, resp>>
    /\ UNCHANGED fetchVars

\* lines 110-111
SaveMkdir(c) ==
    /\ calls[c].pc = "mkdir"
    /\ fs' = Mkdir(SaveDir(calls[c]))
    /\ calls' = [calls EXCEPT ![c].pc = "open"]
    /\ UNCHANGED <<clock, issued, resp>>
    /\ UNCHANGED fetchVars

\* line 115: open(file_path, "w") creates the file, or truncates it
SaveOpen(c) ==
    /\ calls[c].pc = "open"
    /\ fs' = PutFile(FilePath(calls[c]), <<>>)
    /\ calls' = [calls EXCEPT ![c].pc = "dump"]
    /\ UNCHANGED <<clock, issued, resp>>
    /\ UNCHANGED fetchVars

\* line 116: the buffered writer may flush a part of the document
SaveFlush(c) ==
    /\ calls[c].pc = "dump"
    /\ LET p == FilePath(calls[c])
           doc == JsonDump(Payload(calls[c]))
       IN \E k \in (Len(fs.files[p]) + 1)..(Len(doc) - 1) :
            fs' = PutFile(p, SubSeq(doc, 1, k))
    /\ UNCHANGED <<clock, issued, calls, resp>>
    /\ UNCHANGED fetchVars

\* lines 115-116: leaving the with block writes the rest and closes the file
SaveClose(c) ==
    /\ calls[c].pc = "dump"
    /\ fs' = PutFile(FilePath(calls[c]), JsonDump(Payload(calls[c])))
    /\ calls' = [calls EXCEPT ![c].pc = "return"]
    /\ UNCHANGED <<clock, issued, resp>>
    /\ UNCHANGED fetchVars

\* lines 118-136: the log lines and the result
SaveReturn(c) ==
    /\ calls[c].pc = "return"
    /\ calls' = [calls EXCEPT ![c].pc = "done"]
    /\ UNCHANGED <<fs, clock, issued, resp>>
    /\ UNCHANGED fetchVars

\* datetime.utcnow() advances past midnight
Midnight ==
    /\ clock.day < MaxDay
    /\ clock' = [day |-> clock.day + 1]
    /\ UNCHANGED <<fs, issued, calls, resp>>
    /\ UNCHANGED fetchVars

----------------------------------------------------------------------------
(* web_ui: reading the archive                                             *)

EndsWith(s, suffix) ==
    /\ Len(s) >= Len(suffix)
    /\ SubSeq(s, Len(s) - Len(suffix) + 1, Len(s)) = suffix

\* date_dir.glob("*.json"): the names of the files of directory d that match
GlobJson(d) ==
    {q[2] : q \in {r \in DOMAIN fs.files : r[1] = d /\ EndsWith(r[2], JsonExt)}}

\* conv["_file"] = str(json_file)
WithFile(conv, path) ==
    [k \in (DOMAIN conv) \cup {"_file"} |-> IF k = "_file" THEN path ELSE conv[k]]

\* a loader whose try block encloses the loop: the first bad file ends it
RECURSIVE LoadFilesUntilError(_, _)
LoadFilesUntilError(d, names) ==
    IF names = <<>> THEN <<>>
    ELSE LET path == <<d, Head(names)>>
             content == fs.files[path]
         IN IF JsonLoads(content)
            THEN <<WithFile(JsonLoad(content), path)>>
                     \o LoadFilesUntilError(d, Tail(names))
            ELSE <<>>

\* lines 43-50: the files of one directory, in the given order; a file that
\* does not load is skipped
RECURSIVE LoadFiles(_, _)
LoadFiles(d, names) ==
    IF names = <<>> THEN <<>>
    ELSE LET path == <<d, Head(names)>>
             content == fs.files[path]
             rest == LoadFiles(d, Tail(names))
         IN IF JsonLoads(content)
            THEN <<WithFile(JsonLoad(content), path)>> \o rest
            ELSE rest

RECURSIVE LoadDirs(_)
LoadDirs(ds) ==
    IF ds = <<>> THEN <<>>
    ELSE LoadFiles(Head(ds), SortedReverse(GlobJson(Head(ds)))) \o LoadDirs(Tail(ds))

\* get_all_conversations()
get_all_conversations ==
    IF fs.exists THEN LoadDirs(SortedReverse(fs.dirs)) ELSE <<>>

NoConv == [kind |-> "none", val |-> <<>>]
Raised == [kind |-> "raise", val |-> <<>>]
Conv(c) == [kind |-> "conv", val |-> c]

\* a match on the whole file name
MatchesWholeName(conv_id, name) == name = conv_id

\* line 60: `conv_id in json_file.name`
Matches(conv_id, name) == Contains(name, conv_id)

\* the files get_conversation may open: iterdir() and glob() give no order,
\* so the first match is any match
MatchingFiles(conv_id) ==
    {q \in DOMAIN fs.files :
        /\ fs.exists
        /\ q[1] \in fs.dirs
        /\ EndsWith(q[2], JsonExt)
        /\ Matches(conv_id, q[2])}

\* lines 61-62: json.load raises on a document that is not complete
OpenAndLoad(path) ==
    IF JsonLoads(fs.files[path]) THEN Conv(JsonLoad(fs.files[path])) ELSE Raised

\* get_conversation(conv_id): the results it may give
get_conversation(conv_id) ==
    IF MatchingFiles(conv_id) = {} THEN {NoConv}
    ELSE {OpenAndLoad(q) : q \in MatchingFiles(conv_id)}

\* the conv_id path parameters a browser asks for
ConvIds == Uuids \cup {<<>>, <<"a">>, <<"a", "a">>, <<".", "j", "s", "o", "n">>}

NoResponse == [kind |-> "none", status |-> 0, val |-> <<>>]

\* api_conversations: JSONResponse(get_all_conversations())
api_conversations ==
    /\ resp' = [kind |-> "api", status |-> 200, val |-> get_all_conversations]
    /\ UNCHANGED <<fs, clock, issued, calls>>
    /\ UNCHANGED fetchVars

\* what the detail page shows of a conversation (lines 277-316)
DetailPage(conv) ==
    [title |-> conv.title,
     summary |-> conv.summary,
     tags |-> conv.tags,
     key_points |-> conv.key_points,
     messages |-> conv.messages,
     message_count |-> conv.message_count,
     saved |-> SubSeq(conv.saved_at, 1, 10)]

\* conversation_detail: 404 when get_conversation gives nothing, 500 when it raises
conversation_detail(conv_id) ==
    /\ \E r \in get_conversation(conv_id) :
         resp' = CASE r.kind = "none" -> [kind |-> "detail", status |-> 404, val |-> <<>>]
                   [] r.kind = "raise" -> [kind |-> "detail", status |-> 500, val |-> <<>>]
                   [] OTHER -> [kind |-> "detail", status |-> 200,
                                val |-> DetailPage(r.val)]
    /\ UNCHANGED <<fs, clock, issued, calls>>
    /\ UNCHANGED fetchVars

----------------------------------------------------------------------------
(* web_ui: the two static screens                                          *)

DUMMY_TRENDING ==
    << [id |-> "trending-1", title |-> "Q4 Planning Strategy",
        views |-> 342, saves |-> 28, team |-> "Product"],
       [id |-> "trending-2", title |-> "API Rate Limiting Discussion",
        views |-> 289, saves |-> 45, team |-> "Engineering"],
       [id |-> "trending-3", title |-> "Customer Onboarding Flow",
        views |-> 256, saves |-> 19, team |-> "Growth"],
       [id |-> "trending-4", title |-> "Brand Guidelines Update",
        views |-> 198, saves |-> 32, team |-> "Design"],
       [id |-> "trending-5", title |-> "Incident Postmortem: Dec 5",
        views |-> 187, saves |-> 67, team |-> "SRE"] >>

ROADMAP_FEATURES ==
    << [name |-> "Full-text Search", status |-> "coming-soon"],
       [name |-> "Team Workspaces", status |-> "coming-soon"],
       [name |-> "AI Auto-tagging", status |-> "planned"],
       [name |-> "Slack Integration", status |-> "planned"],
       [name |-> "Analytics Dashboard", status |-> "planned"],
       [name |-> "Export to Notion/Confluence", status |-> "exploring"] >>

\* feature["status"].replace("-", " ").title()
StatusLabel(status) ==
    CASE status = "coming-soon" -> "Coming Soon"
      [] status = "planned" -> "Planned"
      [] status = "exploring" -> "Exploring"

\* trending items computed from the archive
TrendingFromArchive ==
    [i \in 1..Len(get_all_conversations) |->
        [id |-> get_all_conversations[i].id,
         title |-> get_all_conversations[i].title,
         views |-> 0,
         saves |-> get_all_conversations[i].message_count,
         team |-> "Archive"]]

\* the items the trending screen lists (line 323)
TrendingItems == DUMMY_TRENDING

\* the features the roadmap screen lists (line 350)
RoadmapItems == ROADMAP_FEATURES

\* lines 322-345: one card per item, numbered from 1
TrendingPage ==
    [i \in 1..Len(TrendingItems) |->
        [rank |-> i,
         title |-> TrendingItems[i].title,
         team |-> TrendingItems[i].team,
         views |-> TrendingItems[i].views,
         saves |-> TrendingItems[i].saves]]

\* lines 349-371
RoadmapPage ==
    [i \in 1..Len(RoadmapItems) |->
        [name |-> RoadmapItems[i].name,
         status_class |-> RoadmapItems[i].status,
         status_label |-> StatusLabel(RoadmapItems[i].status)]]

trending ==
    /\ resp' = [kind |-> "trending", status |-> 200, val |-> TrendingPage]
    /\ UNCHANGED <<fs, clock, issued, calls>>
    /\ UNCHANGED fetchVars

roadmap ==
    /\ resp' = [kind |-> "roadmap", status |-> 200, val |-> RoadmapPage]
    /\ UNCHANGED <<fs, clock, issued, calls>>
    /\ UNCHANGED fetchVars

----------------------------------------------------------------------------
(* fetch_chatgpt: ChatGPTClient.extract_messages                           *)

NoneStr == [some |-> FALSE, v |-> ""]
NoneNum == [some |-> FALSE, v |-> 0]

\* str.strip() removes these from both ends
Whitespace == {" ", "\n", "\t"}

RECURSIVE LStrip(_)
LStrip(t) ==
    IF t = <<>> THEN <<>>
    ELSE IF Head(t) \in Whitespace THEN LStrip(Tail(t)) ELSE t

RECURSIVE RStrip(_)
RStrip(t) ==
    IF t = <<>> THEN <<>>
    ELSE IF t[Len(t)] \in Whitespace THEN RStrip(SubSeq(t, 1, Len(t) - 1)) ELSE t

Strip(t) == RStrip(LStrip(t))

\* "\n".join(strs)
RECURSIVE JoinNewline(_)
JoinNewline(strs) ==
    IF strs = <<>> THEN <<>>
    ELSE IF Len(strs) = 1 THEN Head(strs)
    ELSE Head(strs) \o <<"\n">> \o JoinNewline(Tail(strs))

\* [str(p) for p in parts if p]
RECURSIVE TruthyParts(_)
TruthyParts(parts) ==
    IF parts = <<>> THEN <<>>
    ELSE IF Truthy(Head(parts)) THEN <<Head(parts).v>> \o TruthyParts(Tail(parts))
    ELSE TruthyParts(Tail(parts))

\* line 101
PartsText(parts) == JoinNewline(TruthyParts(parts))

\* a test that does not strip the text
HasTextUnstripped(text) == text # <<>>

\* line 102: `if text.strip()`
HasText(text) == Strip(text) # <<>>

\* lines 86-109: the entries one mapping item adds to messages
Visit(node_id, node) ==
    IF ~node.has_message THEN <<>>
    ELSE IF node.hidden THEN <<>>
    ELSE IF node.content_type = "text" /\ HasText(PartsText(node.parts))
         THEN << [id |-> node_id,
                  role |-> IF node.role.some THEN node.role.v ELSE "unknown",
                  content |-> PartsText(node.parts),
                  create_time |-> node.create_time,
                  parent |-> node.parent] >>
         ELSE <<>>

\* line 112: m.get("create_time") or 0
SortKey(m) ==
    IF m.create_time.some /\ m.create_time.v # 0 THEN m.create_time.v ELSE 0

\* list.sort is stable: m goes behind every entry whose key is not greater
RECURSIVE InsertByKey(_, _)
InsertByKey(sorted, m) ==
    IF sorted = <<>> THEN <<m>>
    ELSE IF SortKey(Head(sorted)) <= SortKey(m)
         THEN <<Head(sorted)>> \o InsertByKey(Tail(sorted), m)
         ELSE <<m>> \o sorted

RECURSIVE SortedByKey(_)
SortedByKey(ms) ==
    IF ms = <<>> THEN <<>>
    ELSE InsertByKey(SortedByKey(SubSeq(ms, 1, Len(ms) - 1)), ms[Len(ms)])

\* a sort whose result is dropped
LeftUnsorted(ms) == ms

\* line 112: messages.sort(key=...)
SortByCreateTime(ms) == SortedByKey(ms)

RECURSIVE VisitAll(_)
VisitAll(mapping) ==
    IF mapping = <<>> THEN <<>>
    ELSE Visit(Head(mapping).key, Head(mapping).node) \o VisitAll(Tail(mapping))

\* extract_messages(conversation_data), as one call
extract_messages(mapping) == SortByCreateTime(VisitAll(mapping))

TextNode(role, parts, time) ==
    [has_message |-> TRUE, role |-> role, hidden |-> FALSE, content_type |-> "text",
     parts |-> parts, create_time |-> time, parent |-> None]

User == [some |-> TRUE, v |-> "user"]
Assistant == [some |-> TRUE, v |-> "assistant"]
At(t) == [some |-> TRUE, v |-> t]

\* The kinds of node a conversation mapping holds.
NodeKinds ==
    { [has_message |-> FALSE, role |-> NoneStr, hidden |-> FALSE, content_type |-> "",
       parts |-> <<>>, create_time |-> NoneNum, parent |-> None],
      [TextNode(User, <<Some(<<"a">>)>>, At(1)) EXCEPT !.hidden = TRUE],
      [TextNode(Assistant, <<Some(<<"a">>)>>, At(1)) EXCEPT !.content_type = "code"],
      TextNode(User, <<Some(<<" ">>)>>, At(1)),
      TextNode(User, <<None, Some(<<>>)>>, At(1)),
      TextNode(User, <<Some(<<"a">>)>>, NoneNum),
      TextNode(NoneStr, <<Some(<<"a">>)>>, At(0)),
      TextNode(User, <<Some(<<"a">>)>>, At(1)),
      TextNode(Assistant, <<Some(<<"b">>), Some(<<>>), Some(<<" ">>)>>, At(2)),
      TextNode(User, <<Some(<<"a">>), None, Some(<<"b">>)>>, At(2)) }

\* the key of the i-th item of a mapping
NodeKey(i) == <<"n", Digits[i + 1]>>

\* a mapping of the given kinds: keys in order, each node's parent the one before
MappingOf(kinds) ==
    [i \in 1..Len(kinds) |->
        [key |-> NodeKey(i),
         node |-> [kinds[i] EXCEPT !.parent = IF i = 1 THEN None ELSE Some(NodeKey(i - 1))]]]

Mappings(n) == {MappingOf(k) : k \in UNION {[1..m -> NodeKinds] : m \in 0..n}}

ExIdle == [pc |-> "idle", mapping |-> <<>>, idx |-> 1, messages |-> <<>>]

\* lines 85-109: one turn of the loop over mapping.items()
ExtractVisit ==
    /\ ex.pc = "loop"
    /\ ex.idx <= Len(ex.mapping)
    /\ ex' = [ex EXCEPT !.messages = @ \o Visit(ex.mapping[ex.idx].key,
                                                 ex.mapping[ex.idx].node),
                        !.idx = @ + 1]
    /\ UNCHANGED <<archVars, client, main>>

\* lines 111-113: the sort and the return
ExtractSort ==
    /\ ex.pc = "loop"
    /\ ex.idx > Len(ex.mapping)
    /\ ex' = [ex EXCEPT !.messages = SortByCreateTime(@), !.pc = "done"]
    /\ UNCHANGED <<archVars, client, main>>

----------------------------------------------------------------------------
(* fetch_chatgpt: ChatGPTClient                                            *)

\* Python's truth value of an optional str: None and "" are falsy.
TruthyStr(o) == o.some /\ o.v # ""

\* f"Bearer {self.access_token}"
Bearer(token) == Some(<<"Bearer ", token>>)

\* ChatGPTClient(cookies): no token, no authorization header, nothing sent
NewClient == [access_token |-> NoneStr, authorization |-> None, requests |-> <<>>]

\* What the session endpoint may answer.
SessionResponses ==
    { [status |-> 401, accessToken |-> NoneStr],
      [status |-> 200, accessToken |-> NoneStr],
      [status |-> 200, accessToken |-> [some |-> TRUE, v |-> ""]],
      [status |-> 200, accessToken |-> [some |-> TRUE, v |-> "tok1"]],
      [status |-> 200, accessToken |-> [some |-> TRUE, v |-> "tok2"]] }

EmptyDict == [empty |-> TRUE, title |-> NoneStr, mapping |-> <<>>]
NoData == [some |-> FALSE, v |-> EmptyDict]
Document(mp) == [empty |-> FALSE, title |-> [some |-> TRUE, v |-> "T"], mapping |-> mp]

\* What the backend API may answer.
BackendResponses ==
    { [status |-> 404, body |-> EmptyDict], [status |-> 200, body |-> EmptyDict] }
    \cup { [status |-> 200, body |-> Document(mp)] : mp \in Mappings(1) }

\* requests.get(url, cookies=self.cookies, headers=self.headers): the request
\* as sent, with the status and the token of its answer
Sent(cl, url, arg, status, token, body_empty) ==
    [cl EXCEPT !.requests = Append(@, [url |-> url, arg |-> arg,
                                       authorization |-> cl.authorization,
                                       status |-> status, token |-> token,
                                       body_empty |-> body_empty])]

\* get_access_token(): the client afterwards and the value returned
get_access_token(cl, sess) ==
    LET sent == Sent(cl, "/api/auth/session", "", sess.status,
                     IF sess.status = 200 THEN sess.accessToken ELSE NoneStr, FALSE)
    IN IF sess.status = 200
       THEN [cl |-> [sent EXCEPT !.access_token = sess.accessToken,
                                 !.authorization = IF TruthyStr(sess.accessToken)
                                                   THEN Bearer(sess.accessToken.v)
                                                   ELSE @],
             ret |-> sess.accessToken]
       ELSE [cl |-> sent, ret |-> NoneStr]

\* lines 52-53 and 66-67: `if not self.access_token: self.get_access_token()`
EnsureToken(cl, sess) ==
    IF ~TruthyStr(cl.access_token) THEN get_access_token(cl, sess).cl ELSE cl

\* lines 60-62 and 75-77: the JSON of a 200 answer, else None
JsonOrNone(back) ==
    IF back.status = 200 THEN [some |-> TRUE, v |-> back.body] ELSE NoData

\* ChatGPTClient.get_conversation(conversation_id)
client_get_conversation(cl, conversation_id, sess, back) ==
    [cl |-> Sent(EnsureToken(cl, sess), "/backend-api/conversation/",
                 conversation_id, back.status, NoneStr, back.body.empty),
     ret |-> JsonOrNone(back)]

\* ChatGPTClient.list_conversations()
list_conversations(cl, sess, back) ==
    [cl |-> Sent(EnsureToken(cl, sess), "/backend-api/conversations",
                 "", back.status, NoneStr, back.body.empty),
     ret |-> JsonOrNone(back)]

DefaultConversationId == "69399ea2-f73c-832f-9de1-7a39cf246efc"

\* the conversation ids a caller asks for
ConversationIds == {DefaultConversationId, "c1"}

CanSend == Len(client.requests) + 2 <= MaxRequests

CallGetAccessToken ==
    /\ CanSend
    /\ \E sess \in SessionResponses : client' = get_access_token(client, sess).cl
    /\ UNCHANGED <<archVars, ex, main>>

CallGetConversation ==
    /\ CanSend
    /\ \E id \in ConversationIds, sess \in SessionResponses, back \in BackendResponses :
         client' = client_get_conversation(client, id, sess, back).cl
    /\ UNCHANGED <<archVars, ex, main>>

CallListConversations ==
    /\ CanSend
    /\ \E sess \in SessionResponses, back \in BackendResponses :
         client' = list_conversations(client, sess, back).cl
    /\ UNCHANGED <<archVars, ex, main>>

----------------------------------------------------------------------------
(* fetch_chatgpt: main                                                     *)

MainIdle ==
    [pc |-> "start", conversation_id |-> "", token |-> NoneStr, data |-> NoData,
     printed |-> <<>>, files |-> {}, exit |-> -1]

\* sys.argv[1], when given
Argv == {NoneStr, [some |-> TRUE, v |-> "c1"]}

\* msg["role"].upper()
Upper(role) ==
    CASE role = "user" -> "USER"
      [] role = "assistant" -> "ASSISTANT"
      [] role = "unknown" -> "UNKNOWN"

\* lines 168-179: what is printed for one message
PrintedMessage(msg) ==
    [role |-> Upper(msg.role),
     stamped |-> msg.create_time.some /\ msg.create_time.v # 0,
     content |-> msg.content]

\* f"conversation_{conversation_id}.json"
OutputFile(conversation_id) == <<"conversation_", conversation_id, ".json">>

\* a script that goes on without a token
GoesOnWithoutToken(token) == FALSE

\* line 144: `if not token`
AuthFailed(token) == ~TruthyStr(token)

\* line 155: `if not data`
FetchFailed(data) == ~data.some \/ data.v.empty

\* lines 129-139
MainStart ==
    /\ main.pc = "start"
    /\ \E arg \in Argv :
         main' = [main EXCEPT !.pc = "auth",
                              !.conversation_id = IF arg.some THEN arg.v
                                                  ELSE DefaultConversationId]
    /\ client' = NewClient
    /\ UNCHANGED <<archVars, ex>>

\* lines 142-149
MainAuthenticate ==
    /\ main.pc = "auth"
    /\ \E sess \in SessionResponses :
         LET r == get_access_token(client, sess)
         IN /\ client' = r.cl
            /\ main' = IF AuthFailed(r.ret)
                       THEN [main EXCEPT !.token = r.ret, !.pc = "exit", !.exit = 1]
                       ELSE [main EXCEPT !.token = r.ret, !.pc = "fetch"]
    /\ UNCHANGED <<archVars, ex>>

\* lines 152-157
MainFetch ==
    /\ main.pc = "fetch"
    /\ \E sess \in SessionResponses, back \in BackendResponses :
         LET r == client_get_conversation(client, main.conversation_id, sess, back)
         IN /\ client' = r.cl
            /\ main' = IF FetchFailed(r.ret)
                       THEN [main EXCEPT !.data = r.ret, !.pc = "exit", !.exit = 1]
                       ELSE [main EXCEPT !.data = r.ret, !.pc = "display"]
    /\ UNCHANGED <<archVars, ex>>

\* lines 160-183
MainDisplay ==
    /\ main.pc = "display"
    /\ LET messages == extract_messages(main.data.v.mapping)
       IN main' = [main EXCEPT !.printed = [i \in 1..Len(messages) |->
                                               PrintedMessage(messages[i])],
                               !.pc = "write"]
    /\ UNCHANGED <<archVars, ex, client>>

\* lines 186-189
MainWrite ==
    /\ main.pc = "write"
    /\ main' = [main EXCEPT !.files = @ \cup {[name |-> OutputFile(main.conversation_id),
                                               content |-> main.data.v]},
                            !.pc = "done", !.exit = 0]
    /\ UNCHANGED <<archVars, ex, client>>

----------------------------------------------------------------------------
(* The archive and the web UI, running side by side.                       *)

InitArchive ==
    /\ fs = [exists |-> FALSE, dirs |-> {}, files |-> <<>>]
    /\ clock = [day |-> 0]
    /\ issued = {}
    /\ calls = [c \in Calls |-> IdleFrame]
    /\ resp = NoResponse
    /\ ex = ExIdle
    /\ client = NewClient
    /\ main = MainIdle

NextArchive ==
    \/ \E c \in Calls : SaveBegin(c)
    \/ \E c \in Calls : SaveMkdir(c)
    \/ \E c \in Calls : SaveOpen(c)
    \/ \E c \in Calls : SaveFlush(c)
    \/ \E c \in Calls : SaveClose(c)
    \/ \E c \in Calls : SaveReturn(c)
    \/ Midnight
    \/ api_conversations
    \/ \E q \in ConvIds : conversation_detail(q)
    \/ trending
    \/ roadmap

SpecArchive == InitArchive /\ [][NextArchive]_vars

----------------------------------------------------------------------------
(* extract_messages, applied to every mapping of up to MaxNodes nodes.     *)

ArchiveIdle ==
    /\ fs = [exists |-> FALSE, dirs |-> {}, files |-> <<>>]
    /\ clock = [day |-> 0]
    /\ issued = {}
    /\ calls = [c \in Calls |-> IdleFrame]
    /\ resp = NoResponse

InitExtract ==
    /\ ArchiveIdle
    /\ ex \in {[pc |-> "loop", mapping |-> mp, idx |-> 1, messages |-> <<>>] :
                 mp \in Mappings(MaxNodes)}
    /\ client = NewClient
    /\ main = MainIdle

NextExtract == ExtractVisit \/ ExtractSort

SpecExtract == InitExtract /\ [][NextExtract]_vars

----------------------------------------------------------------------------
(* One ChatGPTClient, its methods called in any order.                     *)

InitClient ==
    /\ ArchiveIdle
    /\ ex = ExIdle
    /\ client = NewClient
    /\ main = MainIdle

NextClient == CallGetAccessToken \/ CallGetConversation \/ CallListConversations

SpecClient == InitClient /\ [][NextClient]_vars

----------------------------------------------------------------------------
(* One run of the script.                                                  *)

NextMain == MainStart \/ MainAuthenticate \/ MainFetch \/ MainDisplay \/ MainWrite

SpecMain == InitClient /\ [][NextMain]_vars

----------------------------------------------------------------------------
(* Properties of the archive.                                              *)

Opened(c) == calls[c].pc \in {"dump", "return", "done"}
Written(c) == calls[c].pc \in {"return", "done"}
Returned(c) == calls[c].pc = "done"
Begun(c) == calls[c].pc # "idle"

\* the tags or key points a caller expects back: the list given, or []
Expected(o) == IF o.some THEN o.v ELSE <<>>

\* C1: after any interleaving of saves the archive holds exactly one file per
\* save that opened its file, each at <UTC date of the save>/<its id>.json,
\* the ids pairwise distinct, and the file of every save that finished
\* writing holds that save's complete document: no other save overwrote,
\* truncated or removed it.
C1_OneFilePerSave ==
    /\ Cardinality(DOMAIN fs.files) = Cardinality({c \in Calls : Opened(c)})
    /\ \A c, b \in Calls : Begun(c) /\ Begun(b) /\ c # b => calls[c].id # calls[b].id
    /\ \A c \in Calls : Opened(c) =>
         LET p == <<Strftime(calls[c].saved_at), calls[c].id \o JsonExt>>
         IN /\ p \in DOMAIN fs.files
            /\ p[1] \in fs.dirs
            /\ Written(c) => /\ JsonLoads(fs.files[p])
                             /\ JsonLoad(fs.files[p]).id = calls[c].id
                             /\ JsonLoad(fs.files[p]).title = calls[c].in.title
                             /\ JsonLoad(fs.files[p]).summary = calls[c].in.summary
                             /\ JsonLoad(fs.files[p]).messages = calls[c].in.messages

\* two saves into one directory whose steps interleaved: the second returned
\* while the first had flushed a part of its document
C1_Witness ==
    /\ MaxSaves >= 2
    /\ calls[1].pc = "dump"
    /\ calls[2].pc = "done"
    /\ calls[1].saved_at = calls[2].saved_at
    /\ Len(fs.files[FilePath(calls[1])]) > 0

\* C2: once a save has returned id X, get_conversation(X) gives a record with
\* the title, summary and messages of the call and with its tags and key
\* points, or [] where they were omitted, whatever other saves did.
C2_RoundTrip ==
    \A c \in Calls : Returned(c) =>
        \A r \in get_conversation(SaveResult(calls[c]).id) :
            /\ r.kind = "conv"
            /\ r.val.title = calls[c].in.title
            /\ r.val.summary = calls[c].in.summary
            /\ r.val.messages = calls[c].in.messages
            /\ r.val.tags = Expected(calls[c].in.tags)
            /\ r.val.key_points = Expected(calls[c].in.key_points)

\* a returned save that omitted its tags, beside another save's unfinished file
C2_Witness ==
    \E c, b \in Calls :
        /\ Returned(c)
        /\ ~calls[c].in.tags.some
        /\ calls[b].pc = "dump"
        /\ calls[b].saved_at = calls[c].saved_at
        /\ resp.kind = "detail"
        /\ resp.status = 200

\* no save is between opening and closing its file
Quiescent == \A c \in Calls : calls[c].pc # "dump"

\* the ids of the conversations the archive holds
ArchivedIds ==
    {JsonLoad(fs.files[p]).id : p \in {q \in DOMAIN fs.files : JsonLoads(fs.files[q])}}

\* C3: get_conversation(conv_id) gives the archived conversation whose id is
\* conv_id, and None when no archived conversation has that id (stated for
\* the archive states in which no save is writing).
C3_LoadsById ==
    Quiescent =>
        \A q \in ConvIds : \A r \in get_conversation(q) :
            IF q \in ArchivedIds
            THEN r.kind = "conv" /\ r.val.id = q
            ELSE r.kind = "none"

\* the files a date directory holds directly whose name ends in .json
JsonFiles ==
    {p \in DOMAIN fs.files : p[1] \in fs.dirs /\ EndsWith(p[2], JsonExt)}

\* those of them that hold a complete JSON document
LoadableFiles == {p \in JsonFiles : JsonLoads(fs.files[p])}

ResultFiles == {get_all_conversations[i]._file : i \in 1..Len(get_all_conversations)}

C5_SelfConsistent ==
    /\ \A p \in LoadableFiles :
         LET rec == JsonLoad(fs.files[p])
         IN /\ rec.id \o JsonExt = p[2]
            /\ SubSeq(rec.saved_at, 1, 10) = p[1]
            /\ rec.message_count = Len(rec.messages)
    /\ \A c \in Calls : Returned(c) =>
         \E p \in LoadableFiles :
            /\ JsonLoad(fs.files[p]).id = SaveResult(calls[c]).id
            /\ JsonLoad(fs.files[p]).saved_at = SaveResult(calls[c]).saved_at
            /\ JsonLoad(fs.files[p]).message_count = SaveResult(calls[c]).message_count
            /\ p = SaveResult(calls[c]).file_path

\* a returned save of two messages, made after midnight
C5_Witness ==
    \E c \in Calls :
        /\ Returned(c)
        /\ Len(calls[c].in.messages) = 2
        /\ calls[c].saved_at.day > 0

\* C9: the trending and roadmap screens do not depend on the archive: a
\* response served in any earlier archive state is the response the handler
\* gives in the present one.
C9_StaticScreens ==
    /\ resp.kind = "trending" => resp.val = TrendingPage
    /\ resp.kind = "roadmap" => resp.val = RoadmapPage

\* a trending response, with two conversations in the archive
C9_Witness ==
    /\ resp.kind = "trending"
    /\ Len(resp.val) = 5
    /\ Cardinality(LoadableFiles) >= 2

----------------------------------------------------------------------------
(* Properties of fetch_chatgpt.                                            *)

\* a message's create_time, a missing one counting as 0
TimeOrZero(m) == IF m.create_time.some THEN m.create_time.v ELSE 0

\* C6: the list extract_messages returns is ordered by create_time: the
\* values are non-decreasing, a message without create_time counting as 0.
C6_TimeOrdered ==
    ex.pc = "done" =>
        \A i, j \in 1..Len(ex.messages) :
            i < j => TimeOrZero(ex.messages[i]) <= TimeOrZero(ex.messages[j])

\* three messages, one of them without create_time, that the sort reordered
C6_Witness ==
    /\ ex.pc = "done"
    /\ Len(ex.messages) = 3
    /\ \E i \in 1..3 : ~ex.messages[i].create_time.some
    /\ \E i \in 1..3 : ex.messages[i].create_time.some /\ ex.messages[i].create_time.v = 2
    /\ ex.messages # VisitAll(ex.mapping)

IsBackend(r) == r.url \in {"/backend-api/conversation/", "/backend-api/conversations"}
IsSession(r) == r.url = "/api/auth/session"

\* C7: every request sent to the backend API follows a request to the
\* session endpoint and carries `Bearer <token>` with a token the session
\* endpoint returned.
C7_BackendRequestsAuthorized ==
    \A i \in 1..Len(client.requests) :
        IsBackend(client.requests[i]) =>
            /\ \E j \in 1..(i - 1) : IsSession(client.requests[j])
            /\ client.requests[i].authorization.some
            /\ \E j \in 1..(i - 1) :
                 /\ IsSession(client.requests[j])
                 /\ client.requests[j].token.some
                 /\ client.requests[i].authorization.v
                        = <<"Bearer ", client.requests[j].token.v>>

\* C8: main writes conversation_<id>.json only after the authentication and
\* the fetch both succeeded; without a token it exits with status 1 and
\* sends no conversation request; after a failed fetch it exits with status
\* 1 and writes no file.
C8_WritesOnlyAfterSuccess ==
    LET rq == client.requests
    IN /\ main.files # {} =>
            /\ main.pc = "done"
            /\ Len(rq) = 2
            /\ IsSession(rq[1]) /\ rq[1].status = 200
            /\ rq[1].token.some /\ rq[1].token.v # ""
            /\ IsBackend(rq[2]) /\ rq[2].status = 200 /\ rq[2].arg = main.conversation_id
            /\ main.data.some /\ ~main.data.v.empty
            /\ main.files = {[name |-> <<"conversation_", main.conversation_id, ".json">>,
                              content |-> main.data.v]}
       /\ (main.pc # "start" /\ Len(rq) >= 1
              /\ (rq[1].status # 200 \/ ~rq[1].token.some \/ rq[1].token.v = "")) =>
            /\ main.exit = 1
            /\ Len(rq) = 1
            /\ main.files = {}
       /\ (main.pc # "start" /\ Len(rq) >= 2
              /\ (rq[2].status # 200 \/ rq[2].body_empty)) =>
            /\ main.exit = 1
            /\ main.files = {}

\* the script has stopped after the backend answered 200 with an empty object
C8_Witness ==
    /\ main.pc = "exit"
    /\ main.exit = 1
    /\ Len(client.requests) = 2
    /\ client.requests[2].status = 200
    /\ main.files = {}

\* the claim's test of a node: it has a message that is not hidden, of
\* content type text, with a part that holds more than whitespace
Qualifies(node) ==
    /\ node.has_message
    /\ ~node.hidden
    /\ node.content_type = "text"
    /\ \E i \in 1..Len(node.parts) :
         /\ node.parts[i].some
         /\ \E k \in 1..Len(node.parts[i].v) : node.parts[i].v[k] \notin Whitespace

\* C10: extract_messages returns exactly one entry for each node that
\* qualifies and none for any other, each entry carrying the node's id, its
\* author role or 'unknown', its text, its create_time and its parent.
C10_OneEntryPerTextNode ==
    ex.pc = "done" =>
        /\ \A i \in 1..Len(ex.mapping) :
             Cardinality({j \in 1..Len(ex.messages) :
                             ex.messages[j].id = ex.mapping[i].key})
                 = IF Qualifies(ex.mapping[i].node) THEN 1 ELSE 0
        /\ \A j \in 1..Len(ex.messages) :
             \E i \in 1..Len(ex.mapping) :
                LET n == ex.mapping[i].node
                    m == ex.messages[j]
                IN /\ m.id = ex.mapping[i].key
                   /\ m.role = (IF n.role.some THEN n.role.v ELSE "unknown")
                   /\ m.content = PartsText(n.parts)
                   /\ m.create_time = n.create_time
                   /\ m.parent = n.parent

\* a mapping with a node of blank text, a node without author role and a
\* node of several parts
C10_Witness ==
    /\ ex.pc = "done"
    /\ Len(ex.messages) = 2
    /\ \E i \in 1..Len(ex.mapping) :
         LET n == ex.mapping[i].node
         IN n.has_message /\ ~n.hidden /\ n.content_type = "text"
            /\ n.parts = <<Some(<<" ">>)>>
    /\ \E j \in 1..2 : ex.messages[j].role = "unknown"
    /\ \E j \in 1..2 : ex.messages[j].content = <<"a", "\n", "b">>

----------------------------------------------------------------------------
(* Reads of the archive while a save is writing.                           *)

\* the save has created its file and has not yet closed it
InProgress(c) == calls[c].pc = "dump"

\* C11: while a save is in progress a concurrent read neither fails nor
\* gives partial data: get_all_conversations omits the conversation or
\* returns it complete, and get_conversation for its id gives None or the
\* complete record.
C11_ReadsDuringSave ==
    \A c \in Calls : InProgress(c) =>
        /\ \A i \in 1..Len(get_all_conversations) :
             get_all_conversations[i].id = calls[c].id =>
                \A k \in DOMAIN Payload(calls[c]) :
                    get_all_conversations[i][k] = Payload(calls[c])[k]
        /\ \A r \in get_conversation(calls[c].id) :
             \/ r.kind = "none"
             \/ r.kind = "conv" /\ r.val = Payload(calls[c])

----------------------------------------------------------------------------
(* The client's authorization header.                                      *)

\* the session endpoint answered each request with a token, with status 200
\* and no token, or with another status
AnswersAsClaimed ==
    \A i \in 1..Len(client.requests) :
        IsSession(client.requests[i]) =>
            ~(client.requests[i].token.some /\ client.requests[i].token.v = "")

\* C12: after any sequence of calls on one client the headers hold an
\* authorization entry exactly when access_token is not None, and the entry
\* is then 'Bearer ' followed by the current access_token.
C12_HeaderFollowsToken ==
    AnswersAsClaimed =>
        /\ client.authorization.some <=> client.access_token.some
        /\ client.authorization.some =>
             client.authorization.v = <<"Bearer ", client.access_token.v>>

====
